---- MODULE Spec2Model ----
(***************************************************************************)
(* Model of the Discord quote bot's messageCreate handler: the !inspire,   *)
(* !subscribe and !unsubscribe flows over the DynamoDB phone-number table, *)
(* the SNS client and the Discord gateway.  Every `await` of the handler   *)
(* is one step of an invocation; invocations interleave at those steps.    *)
(* Text is modelled as sequences of one-character strings.                 *)
(***************************************************************************)
EXTENDS Integers, Sequences, FiniteSets, TLC

\* ------------------------------------------------------------------ bounds
MaxReplyLen == 2        \* longest reply text a user types at the prompt

\* --------------------------------------------------------------- constants
Authors == {"u1"}              \* the users who write to the bot
Bystanders == {"u2"}           \* a user with a record who writes nothing
Users == Authors \cup Bystanders
Invocations == {"m1", "m2"}    \* handler invocations that may be in flight together

Whitespace == {" "}
ReplyChars == {" ", "1"}

CmdInspire == <<"!", "i", "n", "s", "p", "i", "r", "e">>
CmdSubscribe == <<"!", "s", "u", "b", "s", "c", "r", "i", "b", "e">>
CmdUnsubscribe == <<"!", "u", "n", "s", "u", "b", "s", "c", "r", "i", "b", "e">>
Contents == {CmdInspire, CmdSubscribe, CmdUnsubscribe, <<"h", "i">>,
             <<"!", "s", "u", "b">>, <<" ">> \o CmdInspire}

\* the literal prefix of the template string `pending:${phoneNumber}`
PendingMarker == <<"p", "e", "n", "d", "i", "n", "g", ":">>

\* the fixed texts the handler sends
MsgSmsAck == "Your inspirational quote has been sent to your phone!"
MsgInspireErr == "Something went wrong while fetching your inspirational quote. Please try again later."
MsgPrompt == "Please reply with your phone number to subscribe to SMS notifications:"
MsgPendingAck == "Thank you! A confirmation message has been sent to your phone. Please reply to confirm your subscription."
MsgSubscribeErr == "There was an error subscribing your phone number. Please try again."
MsgUnsubAck == "Your phone number has been unsubscribed from SMS notifications."
MsgNotSubscribed == "You are not subscribed to SMS notifications."
MsgUnsubErr == "There was an error unsubscribing your phone number. Please try again."

\* what the quote API answers: data[0].q and data[0].a
QuoteData == {[q |-> <<"Q">>, a |-> <<"A">>]}

\* phone numbers a carrier has confirmed: never empty
ConfirmedPhones == {<<"1">>}

\* ----------------------------------------------------------------- helpers
RECURSIVE SeqsUpTo(_, _)
SeqsUpTo(S, n) ==
  IF n = 0 THEN {<<>>}
  ELSE LET shorter == SeqsUpTo(S, n - 1)
       IN shorter \cup {Append(s, c) : s \in {x \in shorter : Len(x) = n - 1}, c \in S}

Replies == SeqsUpTo(ReplyChars, MaxReplyLen)

StartsWith_includes(s, p) ==
  \E i \in 0..(Len(s) - Len(p)) : SubSeq(s, i + 1, i + Len(p)) = p

\* String.prototype.startsWith
StartsWith(s, p) == Len(s) >= Len(p) /\ SubSeq(s, 1, Len(p)) = p

RECURSIVE TrimStart(_)
TrimStart(s) ==
  IF s # <<>> /\ Head(s) \in Whitespace THEN TrimStart(Tail(s)) ELSE s

RECURSIVE TrimEnd(_)
TrimEnd(s) ==
  IF s # <<>> /\ s[Len(s)] \in Whitespace THEN TrimEnd(SubSeq(s, 1, Len(s) - 1)) ELSE s

Trim_startOnly(s) == TrimStart(s)

\* String.prototype.trim
Trim(s) == TrimEnd(TrimStart(s))

\* a value that may be null: {} is null, {v} is the value v
Null == {}
Some(v) == {v}
The(opt) == CHOOSE v \in opt : TRUE

Truthy_notUndefined(opt) == TRUE

\* JavaScript truthiness of a string-or-null: null and "" are falsy
Truthy(opt) == opt # Null /\ The(opt) # <<>>

PendingValue_noMarker(phoneNumber) == phoneNumber

\* the template string `pending:${phoneNumber}`
PendingValue(phoneNumber) == PendingMarker \o phoneNumber

\* the result of an awaited call: it returned a value or it threw
Return(v) == [thrown |-> FALSE, value |-> v]
Throw == [thrown |-> TRUE, value |-> Null]

\* one observed call of an invocation
Ev(op, ok, text, args) == [op |-> op, ok |-> ok, text |-> text, args |-> args]

\* ------------------------------------------------------------------- state
VARIABLES
  store,        \* the DynamoDB table: UserId -> PhoneNumber, for the users with an item
  pc,           \* where each invocation of the handler is suspended
  msg,          \* the message each invocation handles: author, bot, content
  quote,        \* the local `quote` of each invocation
  phoneNumber,  \* the local `phoneNumber` of each invocation (null or a string)
  trace         \* the external calls each invocation has made, in order

vars == <<store, pc, msg, quote, phoneNumber, trace>>

NoMsg == [author |-> "u1", bot |-> TRUE, content |-> <<>>]

StoredValues == {PendingValue(p) : p \in ConfirmedPhones} \cup ConfirmedPhones

\* The table outlives the process: at start it holds whatever earlier runs and
\* the out-of-band confirmation left in it.
Init ==
  /\ \E present \in SUBSET Authors :
       store \in {f \in [present \cup Bystanders -> StoredValues] :
                    \A b \in Bystanders : f[b] \in ConfirmedPhones}
  /\ pc = [t \in Invocations |-> "idle"]
  /\ msg = [t \in Invocations |-> NoMsg]
  /\ quote = [t \in Invocations |-> <<>>]
  /\ phoneNumber = [t \in Invocations |-> Null]
  /\ trace = [t \in Invocations |-> <<>>]

\* ------------------------------------------------------ the adapters' calls
getQuote_swallow(ok, data) ==
  Return(IF ok THEN data.q \o <<" ", "-">> \o data.a ELSE <<>>)

getQuote(ok, data) ==
  IF ok THEN Return(data.q \o <<" ", "-">> \o data.a) ELSE Throw

publishMessage_swallow(ok) == Return(Null)

publishMessage(ok) == IF ok THEN Return(Null) ELSE Throw

subscribePhoneNumberToTopic_swallow(ok) == Return(Null)

subscribePhoneNumberToTopic(ok) == IF ok THEN Return(Null) ELSE Throw

getPhoneNumber(ok, table, userId) ==
  IF ok
  THEN Return(IF userId \in DOMAIN table THEN Some(table[userId]) ELSE Null)
  ELSE Throw

Put_ifAbsent(table, userId, value) ==
  IF userId \in DOMAIN table THEN table
  ELSE [u \in DOMAIN table \cup {userId} |-> IF u = userId THEN value ELSE table[u]]

\* PutCommand: the item replaces whatever the key held
Put(table, userId, value) ==
  [u \in DOMAIN table \cup {userId} |-> IF u = userId THEN value ELSE table[u]]

\* DeleteCommand: the key holds nothing afterwards
Delete(table, userId) == [u \in DOMAIN table \ {userId} |-> table[u]]

savePhoneNumber(ok, table, userId, value) ==
  IF ok THEN Return(Put(table, userId, value)) ELSE Throw

deletePhoneNumber_swallow(ok, table, userId) ==
  Return(IF ok THEN Delete(table, userId) ELSE table)

deletePhoneNumber(ok, table, userId) ==
  IF ok THEN Return(Delete(table, userId)) ELSE Throw

\* ------------------------------------------------------------ control flow
\* the three `if (msg.startsWith(...))` statements run one after the other
Route(content, from) ==
  IF from <= 1 /\ StartsWith(content, CmdInspire) THEN "i_quote"
  ELSE IF from <= 2 /\ StartsWith(content, CmdSubscribe) THEN "s_createDM"
  ELSE IF from <= 3 /\ StartsWith(content, CmdUnsubscribe) THEN "u_get"
  ELSE "done"

Goto(t, to) == pc' = [pc EXCEPT ![t] = to]
Log(t, e) == trace' = [trace EXCEPT ![t] = Append(@, e)]

\* ----------------------------------------------------------------- actions
MessageCreate_noBotCheck(t) ==
  /\ pc[t] = "idle"
  /\ \E author \in Authors, bot \in BOOLEAN, content \in Contents :
       /\ msg' = [msg EXCEPT ![t] = [author |-> author, bot |-> bot, content |-> content]]
       /\ Goto(t, Route(content, 1))
  /\ UNCHANGED <<store, quote, phoneNumber, trace>>

\* client.on("messageCreate"): a message arrives and an invocation starts
MessageCreate(t) ==
  /\ pc[t] = "idle"
  /\ \E author \in Authors, bot \in BOOLEAN, content \in Contents :
       /\ msg' = [msg EXCEPT ![t] = [author |-> author, bot |-> bot, content |-> content]]
       /\ Goto(t, IF bot THEN "done" ELSE Route(content, 1))
  /\ UNCHANGED <<store, quote, phoneNumber, trace>>

\* ---- !inspire
InspireGetQuote(t) ==
  /\ pc[t] = "i_quote"
  /\ \E ok \in BOOLEAN, data \in QuoteData :
       LET r == getQuote(ok, data) IN
       /\ quote' = [quote EXCEPT ![t] = IF r.thrown THEN @ ELSE r.value]
       /\ Log(t, Ev("getQuote", ok, "", IF r.thrown THEN <<>> ELSE <<r.value>>))
       /\ Goto(t, IF r.thrown THEN "i_catch" ELSE "i_post")
  /\ UNCHANGED <<store, msg, phoneNumber>>

InspirePost(t) ==
  /\ pc[t] = "i_post"
  /\ \E ok \in BOOLEAN :
       /\ Log(t, Ev("channel.send", ok, "", <<quote[t]>>))
       /\ Goto(t, IF ok THEN "i_get" ELSE "i_catch")
  /\ UNCHANGED <<store, msg, quote, phoneNumber>>

InspireGetPhone(t) ==
  /\ pc[t] = "i_get"
  /\ \E ok \in BOOLEAN :
       LET r == getPhoneNumber(ok, store, msg[t].author) IN
       /\ phoneNumber' = [phoneNumber EXCEPT ![t] = r.value]
       /\ Log(t, Ev("get", ok, "", IF r.value # Null THEN <<The(r.value)>> ELSE <<>>))
       /\ Goto(t, IF r.thrown THEN "i_catch"
                  ELSE IF Truthy(r.value) THEN "i_publish"
                  ELSE Route(msg[t].content, 2))
  /\ UNCHANGED <<store, msg, quote>>

InspirePublish_swapped(t) ==
  /\ pc[t] = "i_publish"
  /\ \E ok \in BOOLEAN :
       LET r == publishMessage(ok) IN
       /\ Log(t, Ev("publish", ok, "", <<quote[t], The(phoneNumber[t])>>))
       /\ Goto(t, IF r.thrown THEN "i_catch" ELSE "i_ack")
  /\ UNCHANGED <<store, msg, quote, phoneNumber>>

InspirePublish(t) ==
  /\ pc[t] = "i_publish"
  /\ \E ok \in BOOLEAN :
       LET r == publishMessage(ok) IN
       /\ Log(t, Ev("publish", ok, "", <<The(phoneNumber[t]), quote[t]>>))
       /\ Goto(t, IF r.thrown THEN "i_catch" ELSE "i_ack")
  /\ UNCHANGED <<store, msg, quote, phoneNumber>>

InspireAck(t) ==
  /\ pc[t] = "i_ack"
  /\ \E ok \in BOOLEAN :
       /\ Log(t, Ev("author.send", ok, MsgSmsAck, <<>>))
       /\ Goto(t, IF ok THEN Route(msg[t].content, 2) ELSE "i_catch")
  /\ UNCHANGED <<store, msg, quote, phoneNumber>>

InspireCatch_dropRecord(t) ==
  /\ pc[t] = "i_catch"
  /\ \E ok \in BOOLEAN :
       /\ Log(t, Ev("author.send", ok, MsgInspireErr, <<>>))
       /\ Goto(t, IF ok THEN Route(msg[t].content, 2) ELSE "unhandled")
  /\ store' = Delete(store, msg[t].author)
  /\ UNCHANGED <<msg, quote, phoneNumber>>

InspireCatch(t) ==
  /\ pc[t] = "i_catch"
  /\ \E ok \in BOOLEAN :
       /\ Log(t, Ev("author.send", ok, MsgInspireErr, <<>>))
       /\ Goto(t, IF ok THEN Route(msg[t].content, 2) ELSE "unhandled")
  /\ UNCHANGED <<store, msg, quote, phoneNumber>>

\* ---- !subscribe
SubscribeCreateDM(t) ==
  /\ pc[t] = "s_createDM"
  /\ \E ok \in BOOLEAN :
       /\ Log(t, Ev("createDM", ok, "", <<>>))
       /\ Goto(t, IF ok THEN "s_prompt" ELSE "s_catch")
  /\ UNCHANGED <<store, msg, quote, phoneNumber>>

SubscribePrompt(t) ==
  /\ pc[t] = "s_prompt"
  /\ \E ok \in BOOLEAN :
       /\ Log(t, Ev("dm.send", ok, MsgPrompt, <<>>))
       /\ Goto(t, IF ok THEN "s_await" ELSE "s_catch")
  /\ UNCHANGED <<store, msg, quote, phoneNumber>>

SubscribeAwaitReply_emptyOnTimeout(t) ==
  /\ pc[t] = "s_await"
  /\ \/ \E reply \in Replies :
          /\ phoneNumber' = [phoneNumber EXCEPT ![t] = Some(Trim(reply))]
          /\ Log(t, Ev("awaitMessages", TRUE, "", <<reply>>))
          /\ Goto(t, "s_subscribe")
     \/ /\ phoneNumber' = [phoneNumber EXCEPT ![t] = Some(<<>>)]
        /\ Log(t, Ev("awaitMessages", FALSE, "", <<>>))
        /\ Goto(t, "s_subscribe")
  /\ UNCHANGED <<store, msg, quote>>

\* dmChannel.awaitMessages({filter, max: 1, time: 60000, errors: ["time"]}):
\* one reply of the author is collected, or the window ends and the wait rejects
\* the author's reply arrives within the window: max: 1 ends the wait
SubscribeReplyCollected(t) ==
  /\ pc[t] = "s_await"
  /\ \E reply \in Replies :
       /\ phoneNumber' = [phoneNumber EXCEPT ![t] = Some(Trim(reply))]
       /\ Log(t, Ev("awaitMessages", TRUE, "", <<reply>>))
       /\ Goto(t, "s_subscribe")
  /\ UNCHANGED <<store, msg, quote>>

SubscribeReplyTimeout_noTimer(t) ==
  /\ FALSE
  /\ pc[t] = "s_await"
  /\ Log(t, Ev("awaitMessages", FALSE, "", <<>>))
  /\ Goto(t, "s_catch")
  /\ UNCHANGED <<store, msg, quote, phoneNumber>>

\* time: 60000, errors: ["time"]: the window ends and the wait rejects
SubscribeReplyTimeout(t) ==
  /\ pc[t] = "s_await"
  /\ Log(t, Ev("awaitMessages", FALSE, "", <<>>))
  /\ Goto(t, "s_catch")
  /\ UNCHANGED <<store, msg, quote, phoneNumber>>

SubscribeAwaitReply(t) ==
  \/ SubscribeReplyCollected(t)
  \/ SubscribeReplyTimeout(t)

SubscribeCall_retryOnce(t) ==
  /\ pc[t] = "s_subscribe"
  /\ \E ok \in BOOLEAN :
       LET r == subscribePhoneNumberToTopic(ok)
           first == \A i \in DOMAIN trace[t] : trace[t][i].op # "subscribe"
       IN
       /\ Log(t, Ev("subscribe", ok, "", <<The(phoneNumber[t])>>))
       /\ Goto(t, IF ~r.thrown THEN "s_ack" ELSE IF first THEN "s_subscribe" ELSE "s_catch")
  /\ UNCHANGED <<store, msg, quote, phoneNumber>>

SubscribeCall(t) ==
  /\ pc[t] = "s_subscribe"
  /\ \E ok \in BOOLEAN :
       LET r == subscribePhoneNumberToTopic(ok) IN
       /\ Log(t, Ev("subscribe", ok, "", <<The(phoneNumber[t])>>))
       /\ Goto(t, IF r.thrown THEN "s_catch" ELSE "s_ack")
  /\ UNCHANGED <<store, msg, quote, phoneNumber>>

SubscribeAck_ignoreFailure(t) ==
  /\ pc[t] = "s_ack"
  /\ \E ok \in BOOLEAN :
       /\ Log(t, Ev("dm.send", ok, MsgPendingAck, <<>>))
       /\ Goto(t, "s_save")
  /\ UNCHANGED <<store, msg, quote, phoneNumber>>

SubscribeAck(t) ==
  /\ pc[t] = "s_ack"
  /\ \E ok \in BOOLEAN :
       /\ Log(t, Ev("dm.send", ok, MsgPendingAck, <<>>))
       /\ Goto(t, IF ok THEN "s_save" ELSE "s_catch")
  /\ UNCHANGED <<store, msg, quote, phoneNumber>>

SubscribeSave(t) ==
  /\ pc[t] = "s_save"
  /\ \E ok \in BOOLEAN :
       LET value == PendingValue(The(phoneNumber[t]))
           r == savePhoneNumber(ok, store, msg[t].author, value) IN
       /\ store' = IF r.thrown THEN store ELSE r.value
       /\ Log(t, Ev("put", ok, "", <<value>>))
       /\ Goto(t, IF r.thrown THEN "s_catch" ELSE Route(msg[t].content, 3))
  /\ UNCHANGED <<msg, quote, phoneNumber>>

SubscribeCatch(t) ==
  /\ pc[t] = "s_catch"
  /\ \E ok \in BOOLEAN :
       /\ Log(t, Ev("author.send", ok, MsgSubscribeErr, <<>>))
       /\ Goto(t, IF ok THEN Route(msg[t].content, 3) ELSE "unhandled")
  /\ UNCHANGED <<store, msg, quote, phoneNumber>>

\* ---- !unsubscribe
UnsubscribeGetPhone(t) ==
  /\ pc[t] = "u_get"
  /\ \E ok \in BOOLEAN :
       LET r == getPhoneNumber(ok, store, msg[t].author) IN
       /\ phoneNumber' = [phoneNumber EXCEPT ![t] = r.value]
       /\ Log(t, Ev("get", ok, "", IF r.value # Null THEN <<The(r.value)>> ELSE <<>>))
       /\ Goto(t, IF r.thrown THEN "u_catch"
                  ELSE IF Truthy(r.value) THEN "u_delete"
                  ELSE "u_notsub")
  /\ UNCHANGED <<store, msg, quote>>

UnsubscribeDelete(t) ==
  /\ pc[t] = "u_delete"
  /\ \E ok \in BOOLEAN :
       LET r == deletePhoneNumber(ok, store, msg[t].author) IN
       /\ store' = IF r.thrown THEN store ELSE r.value
       /\ Log(t, Ev("delete", ok, "", <<>>))
       /\ Goto(t, IF r.thrown THEN "u_catch" ELSE "u_ack")
  /\ UNCHANGED <<msg, quote, phoneNumber>>

UnsubscribeAck(t) ==
  /\ pc[t] = "u_ack"
  /\ \E ok \in BOOLEAN :
       /\ Log(t, Ev("author.send", ok, MsgUnsubAck, <<>>))
       /\ Goto(t, IF ok THEN "done" ELSE "u_catch")
  /\ UNCHANGED <<store, msg, quote, phoneNumber>>

UnsubscribeNotSubscribed(t) ==
  /\ pc[t] = "u_notsub"
  /\ \E ok \in BOOLEAN :
       /\ Log(t, Ev("author.send", ok, MsgNotSubscribed, <<>>))
       /\ Goto(t, IF ok THEN "done" ELSE "u_catch")
  /\ UNCHANGED <<store, msg, quote, phoneNumber>>

UnsubscribeCatch_wrongText(t) ==
  /\ pc[t] = "u_catch"
  /\ \E ok \in BOOLEAN :
       /\ Log(t, Ev("author.send", ok, MsgSubscribeErr, <<>>))
       /\ Goto(t, IF ok THEN "done" ELSE "unhandled")
  /\ UNCHANGED <<store, msg, quote, phoneNumber>>

UnsubscribeCatch(t) ==
  /\ pc[t] = "u_catch"
  /\ \E ok \in BOOLEAN :
       /\ Log(t, Ev("author.send", ok, MsgUnsubErr, <<>>))
       /\ Goto(t, IF ok THEN "done" ELSE "unhandled")
  /\ UNCHANGED <<store, msg, quote, phoneNumber>>

\* the handler's promise has settled; the listener takes the next message
Settle(t) ==
  /\ pc[t] \in {"done", "unhandled"}
  /\ pc' = [pc EXCEPT ![t] = "idle"]
  /\ msg' = [msg EXCEPT ![t] = NoMsg]
  /\ quote' = [quote EXCEPT ![t] = <<>>]
  /\ phoneNumber' = [phoneNumber EXCEPT ![t] = Null]
  /\ trace' = [trace EXCEPT ![t] = <<>>]
  /\ UNCHANGED store

Next ==
  \E t \in Invocations :
    \/ MessageCreate(t)
    \/ InspireGetQuote(t)
    \/ InspirePost(t)
    \/ InspireGetPhone(t)
    \/ InspirePublish(t)
    \/ InspireAck(t)
    \/ InspireCatch(t)
    \/ SubscribeCreateDM(t)
    \/ SubscribePrompt(t)
    \/ SubscribeAwaitReply(t)
    \/ SubscribeCall(t)
    \/ SubscribeAck(t)
    \/ SubscribeSave(t)
    \/ SubscribeCatch(t)
    \/ UnsubscribeGetPhone(t)
    \/ UnsubscribeDelete(t)
    \/ UnsubscribeAck(t)
    \/ UnsubscribeNotSubscribed(t)
    \/ UnsubscribeCatch(t)
    \/ Settle(t)

Spec == Init /\ [][Next]_vars

\* What the event loop does without anyone's help: it resumes an invocation
\* when the call it awaits has returned or failed, and it fires the timer of
\* the reply wait.  A new message and the user's reply are not its doing.
Resume(t) ==
  \/ InspireGetQuote(t) \/ InspirePost(t) \/ InspireGetPhone(t)
  \/ InspirePublish(t) \/ InspireAck(t) \/ InspireCatch(t)
  \/ SubscribeCreateDM(t) \/ SubscribePrompt(t) \/ SubscribeReplyTimeout(t)
  \/ SubscribeCall(t) \/ SubscribeAck(t) \/ SubscribeSave(t) \/ SubscribeCatch(t)
  \/ UnsubscribeGetPhone(t) \/ UnsubscribeDelete(t) \/ UnsubscribeAck(t)
  \/ UnsubscribeNotSubscribed(t) \/ UnsubscribeCatch(t)

FairSpec == Spec /\ \A t \in Invocations : WF_vars(Resume(t))

\* --------------------------------------------- vocabulary of the properties
\* the phone state a stored string encodes
IsPendingValue(v) == StartsWith(v, PendingMarker)
IsConfirmedValue(v) == ~StartsWith(v, PendingMarker)
Unset(table, u) == u \notin DOMAIN table
Pending(table, u) == u \in DOMAIN table /\ IsPendingValue(table[u])
Confirmed(table, u) == u \in DOMAIN table /\ IsConfirmedValue(table[u])

\* the flow an invocation runs
Running(t, cmd) == pc[t] # "idle" /\ ~msg[t].bot /\ StartsWith(msg[t].content, cmd)

\* the invocation that takes the step
Steps(t) == trace'[t] # trace[t]

Idx(t) == DOMAIN trace[t]
Called(t, op) == \E i \in Idx(t) : trace[t][i].op = op
Sent(t, text) == \E i \in Idx(t) : trace[t][i].text = text
NoFailure(t) == \A i \in Idx(t) : trace[t][i].ok

IsPrefix(s, full) == Len(s) <= Len(full) /\ s = SubSeq(full, 1, Len(s))

\* p is r without its leading and trailing whitespace
IsTrimOf(p, r) ==
  /\ p = <<>> \/ (p[1] \notin Whitespace /\ p[Len(p)] \notin Whitespace)
  /\ \E i \in 0..Len(r) :
       /\ i + Len(p) <= Len(r)
       /\ p = SubSeq(r, i + 1, i + Len(p))
       /\ \A k \in 1..Len(r) : (k <= i \/ k > i + Len(p)) => r[k] \in Whitespace

\* ------------------------------------------------------------------ claims
\* C1: in the subscribe flow a store put is called only after the SNS
\* subscribe call of the same invocation has returned successfully, for the
\* phone number the put stores; an invocation whose subscribe call failed
\* or was never made calls no put.
C1_PutOnlyAfterSubscribe ==
  \A t \in Invocations : \A i \in Idx(t) :
    trace[t][i].op = "put" =>
      /\ \E j \in 1..(i - 1) :
           /\ trace[t][j].op = "subscribe"
           /\ trace[t][j].ok
           /\ trace[t][i].args = <<PendingMarker \o trace[t][j].args[1]>>
      /\ \A j \in Idx(t) : trace[t][j].op = "subscribe" => trace[t][j].ok

C1_Witness ==
  \E t \in Invocations : \E i \in Idx(t) : trace[t][i].op = "put" /\ trace[t][i].ok

\* C2: an inspire invocation whose lookup found the user Unset or Pending
\* makes no SMS publish call and sends no SMS acknowledgment.
C2_NoSmsUnlessConfirmed ==
  \A t \in Invocations : \A i \in Idx(t) :
    ( /\ Running(t, CmdInspire)
      /\ trace[t][i].op = "get"
      /\ trace[t][i].ok
      /\ (trace[t][i].args = <<>> \/ IsPendingValue(trace[t][i].args[1])) )
    => ~Called(t, "publish") /\ ~Sent(t, MsgSmsAck)

\* C3: an inspire invocation whose lookup found a Confirmed record and in
\* which no call failed makes these calls in this order and no others: the
\* quote fetch, the post of the quote to the channel, the lookup, one SMS
\* publish of the fetched quote to the stored phone number, one
\* acknowledgment direct message.
C3_Expected(t) ==
  LET q == trace[t][1].args[1]
      v == trace[t][3].args[1]
  IN << Ev("getQuote", TRUE, "", <<q>>),
        Ev("channel.send", TRUE, "", <<q>>),
        Ev("get", TRUE, "", <<v>>),
        Ev("publish", TRUE, "", <<v, q>>),
        Ev("author.send", TRUE, MsgSmsAck, <<>>) >>

C3_ConfirmedInspire ==
  \A t \in Invocations :
    ( /\ Running(t, CmdInspire)
      /\ NoFailure(t)
      /\ Len(trace[t]) >= 3
      /\ trace[t][3].op = "get"
      /\ trace[t][3].args # <<>>
      /\ IsConfirmedValue(trace[t][3].args[1]) )
    => /\ IsPrefix(trace[t], C3_Expected(t))
       /\ pc[t] # "unhandled"
       /\ pc[t] = "done" => trace[t] = C3_Expected(t)

C3_Witness ==
  \E t \in Invocations :
    /\ pc[t] = "done"
    /\ Len(trace[t]) = 5
    /\ trace[t][3].op = "get"
    /\ IsConfirmedValue(trace[t][3].args[1])
    /\ trace[t][4] = Ev("publish", TRUE, "", <<trace[t][3].args[1], trace[t][1].args[1]>>)
    /\ trace[t][5] = Ev("author.send", TRUE, MsgSmsAck, <<>>)

\* C4: when the put of a subscribe invocation succeeds, the record stored
\* for the author right after it is the pending marker followed by the reply
\* with its leading and trailing whitespace removed, whatever the record was
\* before (absent, Pending or Confirmed); the other users' records stay.
C4_ReplyOf(t) == trace[t][3].args[1]

C4_StoresPendingTrimmedReply ==
  [][ \A t \in Invocations :
        (pc[t] = "s_save" /\ Steps(t) /\ pc'[t] # "s_catch") =>
          LET u == msg[t].author IN
          /\ u \in DOMAIN store'
          /\ \E p \in Replies :
               /\ IsTrimOf(p, C4_ReplyOf(t))
               /\ store'[u] = PendingMarker \o p
          /\ \A w \in Users \ {u} : Unset(store', w) = Unset(store, w)
          /\ \A w \in DOMAIN store \ {u} : store'[w] = store[w]
    ]_vars

\* a put of a reply that had whitespace on both sides has overwritten the
\* Confirmed record another invocation had read
C4_Witness ==
  \E t, o \in Invocations :
    /\ t # o
    /\ Len(trace[t]) = 6
    /\ trace[t][6].op = "put" /\ trace[t][6].ok
    /\ msg[t].author = msg[o].author
    /\ Len(C4_ReplyOf(t)) > Len(Trim(C4_ReplyOf(t)))
    /\ store[msg[t].author] = PendingMarker \o Trim(C4_ReplyOf(t))
    /\ pc[o] = "u_delete"
    /\ IsConfirmedValue(trace[o][1].args[1])

\* C5: an unsubscribe invocation whose lookup found no record sends the
\* "not subscribed" message as its next call, calls no delete and no put,
\* and none of its steps changes the table; unless that very send fails it
\* ends there, with no error message -- the same outcome every time it runs
\* for a user who stays Unset.
C5_FoundNoRecord(t) ==
  /\ Running(t, CmdUnsubscribe)
  /\ Len(trace[t]) >= 1
  /\ trace[t][1] = Ev("get", TRUE, "", <<>>)

C5_NotSubscribedOutcome == <<Ev("get", TRUE, "", <<>>), Ev("author.send", TRUE, MsgNotSubscribed, <<>>)>>

C5_UnsetUnsubscribe ==
  /\ [](\A t \in Invocations :
          C5_FoundNoRecord(t) =>
            /\ ~Called(t, "delete") /\ ~Called(t, "put")
            /\ Len(trace[t]) = 1 => pc[t] = "u_notsub"
            /\ Len(trace[t]) >= 2 => /\ trace[t][2].op = "author.send"
                                     /\ trace[t][2].text = MsgNotSubscribed
            /\ (Len(trace[t]) >= 2 /\ trace[t][2].ok) =>
                 /\ trace[t] = C5_NotSubscribedOutcome
                 /\ pc[t] = "done")
  /\ [][ \A t \in Invocations :
           (C5_FoundNoRecord(t) /\ Steps(t)) => store' = store ]_vars

\* two invocations for the same Unset user have both ended "not subscribed"
C5_Witness ==
  /\ \A t \in Invocations :
       /\ pc[t] = "done"
       /\ trace[t] = C5_NotSubscribedOutcome
       /\ Unset(store, msg[t].author)
  /\ \A t, o \in Invocations : msg[t].author = msg[o].author

\* C6: when the reply wait of a subscribe invocation ends with no reply (the
\* window ran out), the next call of the invocation is the send of the
\* subscription error message; the invocation never calls SNS subscribe,
\* never calls put, and none of its steps changes the table.
C6_TimedOut(t) ==
  \E i \in Idx(t) : trace[t][i].op = "awaitMessages" /\ ~trace[t][i].ok

C6_TimeoutWritesNothing ==
  /\ [](\A t \in Invocations :
          C6_TimedOut(t) =>
            /\ ~Called(t, "subscribe") /\ ~Called(t, "put") /\ ~Called(t, "delete")
            /\ ~Sent(t, MsgPendingAck)
            /\ Len(trace[t]) = 3 => pc[t] = "s_catch"
            /\ Len(trace[t]) >= 4 => /\ trace[t][4].op = "author.send"
                                     /\ trace[t][4].text = MsgSubscribeErr
            /\ Len(trace[t]) <= 4)
  /\ [][ \A t \in Invocations :
           ((C6_TimedOut(t) \/ pc[t] = "s_await") /\ Steps(t)) => store' = store ]_vars

C6_Witness ==
  \E t \in Invocations :
    /\ pc[t] = "done"
    /\ C6_TimedOut(t)
    /\ trace[t][4] = Ev("author.send", TRUE, MsgSubscribeErr, <<>>)
    /\ Confirmed(store, msg[t].author)

\* C7: when the SNS subscribe call of a subscribe invocation fails, the next
\* call of the invocation is the send of the subscription error message; the
\* invocation calls no put, sends no pending-confirmation acknowledgment, and
\* none of its steps changes the table, whatever the record was.
C7_SubscribeFailed(t) ==
  \E i \in Idx(t) : trace[t][i].op = "subscribe" /\ ~trace[t][i].ok

C7_FailedSubscribeWritesNothing ==
  /\ [](\A t \in Invocations :
          C7_SubscribeFailed(t) =>
            /\ ~Called(t, "put") /\ ~Called(t, "delete")
            /\ ~Sent(t, MsgPendingAck)
            /\ Len(trace[t]) = 4 => pc[t] = "s_catch"
            /\ Len(trace[t]) >= 5 => /\ trace[t][5].op = "author.send"
                                     /\ trace[t][5].text = MsgSubscribeErr
            /\ Len(trace[t]) <= 5)
  /\ [][ \A t \in Invocations :
           ((C7_SubscribeFailed(t) \/ pc[t] = "s_subscribe") /\ Steps(t) /\ pc'[t] # "s_ack")
             => store' = store ]_vars

C7_Witness ==
  \E t \in Invocations :
    /\ pc[t] = "done"
    /\ C7_SubscribeFailed(t)
    /\ trace[t][5] = Ev("author.send", TRUE, MsgSubscribeErr, <<>>)
    /\ Pending(store, msg[t].author)

\* the step is the successful delete of an unsubscribe invocation of user u
DeletedBy(t, u) ==
  /\ Running(t, CmdUnsubscribe)
  /\ msg[t].author = u
  /\ pc[t] = "u_delete"
  /\ trace'[t] = Append(trace[t], Ev("delete", TRUE, "", <<>>))

\* C8 as stated: no step takes a record from Pending to Unset or from Unset
\* to Confirmed, and a record becomes Unset only from Confirmed, by
\* unsubscribe.
C8_OnlyConfirmedBecomesUnset ==
  [][ \A u \in Users :
        /\ ~(Pending(store, u) /\ Unset(store', u))
        /\ ~(Unset(store, u) /\ Confirmed(store', u))
        /\ (~Unset(store, u) /\ Unset(store', u)) =>
             (Confirmed(store, u) /\ \E t \in Invocations : DeletedBy(t, u))
    ]_vars

\* C8 as amended: no step takes a record from Unset to Confirmed, and a
\* record becomes Unset only by the successful delete of an unsubscribe
\* invocation of that user, from Pending as well as from Confirmed.
C8_UnsetOnlyByUnsubscribe ==
  [][ \A u \in Users :
        /\ ~(Unset(store, u) /\ Confirmed(store', u))
        /\ (~Unset(store, u) /\ Unset(store', u)) =>
             \E t \in Invocations : DeletedBy(t, u)
    ]_vars

\* an unsubscribe has deleted the Pending record it read
C8_Witness ==
  \E t \in Invocations :
    /\ Running(t, CmdUnsubscribe)
    /\ Len(trace[t]) >= 2
    /\ trace[t][1].op = "get" /\ trace[t][1].args # <<>>
    /\ IsPendingValue(trace[t][1].args[1])
    /\ trace[t][2] = Ev("delete", TRUE, "", <<>>)
    /\ Unset(store, msg[t].author)
    /\ \A o \in Invocations \ {t} : pc[o] = "idle"

\* C9: an unsubscribe invocation whose lookup found a record (Pending or
\* Confirmed) calls delete next; the successful delete leaves the author
\* Unset; the unsubscribed confirmation is sent only directly after the
\* delete call succeeded, never in an invocation whose delete failed or was
\* not made; with no failing call the invocation is lookup, delete,
\* confirmation and nothing else.
C9_FoundRecord(t) ==
  /\ Running(t, CmdUnsubscribe)
  /\ Len(trace[t]) >= 1
  /\ trace[t][1].op = "get" /\ trace[t][1].ok /\ trace[t][1].args # <<>>

C9_DeleteThenConfirm ==
  /\ [](\A t \in Invocations :
          /\ C9_FoundRecord(t) =>
               /\ Len(trace[t]) = 1 => pc[t] = "u_delete"
               /\ Len(trace[t]) >= 2 => trace[t][2].op = "delete"
               /\ (NoFailure(t) /\ pc[t] = "done") =>
                    trace[t] = << trace[t][1],
                                  Ev("delete", TRUE, "", <<>>),
                                  Ev("author.send", TRUE, MsgUnsubAck, <<>>) >>
          /\ \A i \in Idx(t) :
               trace[t][i].text = MsgUnsubAck =>
                 /\ i = 3
                 /\ trace[t][2] = Ev("delete", TRUE, "", <<>>)
                 /\ \A j \in Idx(t) : trace[t][j].op = "delete" => trace[t][j].ok)
  /\ [][ \A t \in Invocations :
           (pc[t] = "u_delete" /\ Steps(t) /\ pc'[t] = "u_ack") =>
             /\ Unset(store', msg[t].author)
             /\ \A w \in Users \ {msg[t].author} :
                  /\ Unset(store', w) = Unset(store, w)
                  /\ ~Unset(store, w) => store'[w] = store[w] ]_vars

\* a Confirmed record was deleted and then confirmed, nothing else running
C9_Witness ==
  \E t \in Invocations :
    /\ pc[t] = "done"
    /\ C9_FoundRecord(t)
    /\ IsConfirmedValue(trace[t][1].args[1])
    /\ Len(trace[t]) = 3
    /\ trace[t][3] = Ev("author.send", TRUE, MsgUnsubAck, <<>>)
    /\ Unset(store, msg[t].author)
    /\ \A o \in Invocations \ {t} : pc[o] = "idle"

\* C10: no step takes a record from Pending to Confirmed; every value a
\* step writes into the table carries the pending marker, so the Confirmed
\* records of the table are records it held from the start.
C10_NeverPromoted ==
  /\ [](\A t \in Invocations : \A i \in Idx(t) :
          trace[t][i].op = "put" => IsPendingValue(trace[t][i].args[1]))
  /\ [][ \A u \in Users :
           /\ ~(Pending(store, u) /\ Confirmed(store', u))
           /\ (~Unset(store', u) /\ (Unset(store, u) \/ store'[u] # store[u]))
                => IsPendingValue(store'[u])
           /\ Confirmed(store', u) => (Confirmed(store, u) /\ store'[u] = store[u])
     ]_vars

\* a subscribe attempt has written over a Pending record and the record is
\* still Pending
C10_Witness ==
  \E t, o \in Invocations :
    /\ t # o
    /\ msg[t].author = msg[o].author
    /\ pc[o] = "u_delete"
    /\ IsPendingValue(trace[o][1].args[1])
    /\ Len(trace[t]) = 6
    /\ trace[t][6].op = "put" /\ trace[t][6].ok
    /\ trace[t][6].args[1] # trace[o][1].args[1]
    /\ Pending(store, msg[t].author)

\* C11: no failure of an external call leaves the handler: no invocation
\* ends with its promise rejected.
C11_NoFailureEscapes ==
  \A t \in Invocations : pc[t] # "unhandled"

\* C12: an invocation in which a call failed makes exactly one send of an
\* error text, directly after the first failed call, and the text is the one
\* of its flow, whichever call failed; an invocation without a failed call
\* sends no error text.
ErrTexts == {MsgInspireErr, MsgSubscribeErr, MsgUnsubErr}

FlowErrText(t) ==
  IF Running(t, CmdInspire) THEN MsgInspireErr
  ELSE IF Running(t, CmdSubscribe) THEN MsgSubscribeErr
  ELSE MsgUnsubErr

FirstFailure(t) ==
  CHOOSE i \in Idx(t) : ~trace[t][i].ok /\ \A j \in 1..(i - 1) : trace[t][j].ok

C12_OneErrorMessagePerFailure ==
  \A t \in Invocations :
    LET errs == {i \in Idx(t) : trace[t][i].text \in ErrTexts} IN
    /\ NoFailure(t) => errs = {}
    /\ ~NoFailure(t) =>
         LET f == FirstFailure(t) IN
         /\ Len(trace[t]) <= f + 1
         /\ Len(trace[t]) = f => /\ errs = {}
                                 /\ pc[t] \in {"i_catch", "s_catch", "u_catch"}
         /\ Len(trace[t]) = f + 1 =>
              /\ errs = {f + 1}
              /\ trace[t][f + 1].op = "author.send"
              /\ trace[t][f + 1].text = FlowErrText(t)

\* two subscribe invocations, one failed by the reply timeout and one by the
\* store, have sent the same text
C12_Witness ==
  \E t, o \in Invocations :
    /\ pc[t] = "done" /\ pc[o] = "done"
    /\ Len(trace[t]) = 4
    /\ trace[t][3] = Ev("awaitMessages", FALSE, "", <<>>)
    /\ Len(trace[o]) = 7
    /\ trace[o][6].op = "put" /\ ~trace[o][6].ok
    /\ trace[t][4] = Ev("author.send", TRUE, MsgSubscribeErr, <<>>)
    /\ trace[o][7] = trace[t][4]

\* the step is the successful put of a subscribe invocation of user u
PutBy(t, u) ==
  /\ Running(t, CmdSubscribe)
  /\ msg[t].author = u
  /\ pc[t] = "s_save"
  /\ Steps(t)
  /\ trace'[t][Len(trace'[t])].op = "put"
  /\ trace'[t][Len(trace'[t])].ok

\* C13: the last write wins.  A successful put leaves the value it puts and
\* a successful delete leaves no record, whatever the record is at that
\* moment and whatever the other invocations of the user have read, written
\* or confirmed; nothing but these two steps changes a record.
C13_LastWriteWins ==
  [][ \A u \in Users :
        /\ \A t \in Invocations :
             /\ PutBy(t, u) =>
                  /\ ~Unset(store', u)
                  /\ store'[u] = trace'[t][Len(trace'[t])].args[1]
             /\ DeletedBy(t, u) => Unset(store', u)
        /\ (Unset(store', u) # Unset(store, u) \/ (~Unset(store, u) /\ store'[u] # store[u]))
             => \E t \in Invocations : PutBy(t, u) \/ DeletedBy(t, u)
    ]_vars

\* an unsubscribe that had read the Confirmed record has deleted the Pending
\* record a subscribe put after that read
C13_Witness ==
  \E t, o \in Invocations :
    /\ t # o /\ msg[t].author = msg[o].author
    /\ Running(o, CmdUnsubscribe)
    /\ Len(trace[o]) = 2
    /\ trace[o][1].op = "get" /\ trace[o][1].args # <<>>
    /\ IsConfirmedValue(trace[o][1].args[1])
    /\ trace[o][2] = Ev("delete", TRUE, "", <<>>)
    /\ Len(trace[t]) = 6
    /\ trace[t][6].op = "put" /\ trace[t][6].ok
    /\ Unset(store, msg[t].author)

\* the other race: an unsubscribe has deleted and confirmed, and a subscribe
\* of the same user that started before stands right before its put
C13_RecreateAfterConfirm ==
  \E t, o \in Invocations :
    /\ t # o /\ msg[t].author = msg[o].author
    /\ pc[o] = "done"
    /\ Len(trace[o]) = 3
    /\ trace[o][2] = Ev("delete", TRUE, "", <<>>)
    /\ trace[o][3] = Ev("author.send", TRUE, MsgUnsubAck, <<>>)
    /\ pc[t] = "s_save"
    /\ Unset(store, msg[t].author)

\* C14: in an inspire invocation that posted the quote to the channel and
\* whose lookup or SMS publish then failed, the post is the only channel
\* post, no SMS acknowledgment is sent, and the one call after the failure
\* is the send of the inspire error text.
C14_FailedAfterPost(t, i) ==
  /\ Running(t, CmdInspire)
  /\ Len(trace[t]) >= 2
  /\ trace[t][2].op = "channel.send" /\ trace[t][2].ok
  /\ i \in Idx(t)
  /\ trace[t][i].op \in {"get", "publish"}
  /\ ~trace[t][i].ok

C14_PostStaysAfterLaterFailure ==
  \A t \in Invocations : \A i \in 1..Len(trace[t]) :
    C14_FailedAfterPost(t, i) =>
      /\ {j \in Idx(t) : trace[t][j].op = "channel.send"} = {2}
      /\ trace[t][2].args = trace[t][1].args
      /\ ~Sent(t, MsgSmsAck)
      /\ Len(trace[t]) <= i + 1
      /\ Len(trace[t]) = i => pc[t] = "i_catch"
      /\ Len(trace[t]) = i + 1 =>
           /\ trace[t][i + 1].op = "author.send"
           /\ trace[t][i + 1].text = MsgInspireErr

\* the publish to a Confirmed number failed after the post
C14_Witness ==
  \E t \in Invocations :
    /\ pc[t] = "done"
    /\ C14_FailedAfterPost(t, 4)
    /\ trace[t][4].op = "publish"
    /\ trace[t][5] = Ev("author.send", TRUE, MsgInspireErr, <<>>)

\* C15: when the quote fetch of an inspire invocation fails, the invocation
\* posts nothing to the channel, does not read the table, makes no SMS
\* publish call, and its one further call is the send of the inspire error
\* text.
C15_QuoteFetchFailed(t) ==
  /\ Running(t, CmdInspire)
  /\ Len(trace[t]) >= 1
  /\ trace[t][1].op = "getQuote" /\ ~trace[t][1].ok

C15_FailedFetchStops ==
  \A t \in Invocations :
    C15_QuoteFetchFailed(t) =>
      /\ ~Called(t, "channel.send") /\ ~Called(t, "get") /\ ~Called(t, "publish")
      /\ Len(trace[t]) <= 2
      /\ Len(trace[t]) = 1 => pc[t] = "i_catch"
      /\ Len(trace[t]) = 2 =>
           /\ trace[t][2].op = "author.send"
           /\ trace[t][2].text = MsgInspireErr
           /\ pc[t] \in {"done", "unhandled"}

C15_Witness ==
  \E t \in Invocations :
    /\ pc[t] = "done"
    /\ C15_QuoteFetchFailed(t)
    /\ trace[t][2] = Ev("author.send", TRUE, MsgInspireErr, <<>>)

\* C16: an inspire invocation calls neither put nor delete, and none of its
\* steps changes the table, whatever the author's record is and whether or
\* not a call fails.
C16_InspireNeverWrites ==
  /\ [](\A t \in Invocations :
          Running(t, CmdInspire) => ~Called(t, "put") /\ ~Called(t, "delete"))
  /\ [][ \A t \in Invocations :
           ((Running(t, CmdInspire) /\ (Steps(t) \/ pc'[t] # pc[t])) => store' = store)
     ]_vars

\* inspire invocations have ended, one with a failure and one without, and
\* the Confirmed record they read is still there
C16_Witness ==
  \E t, o \in Invocations :
    /\ pc[t] = "done" /\ pc[o] = "done"
    /\ Running(t, CmdInspire) /\ Running(o, CmdInspire)
    /\ NoFailure(t) /\ Len(trace[t]) = 5
    /\ ~NoFailure(o) /\ Len(trace[o]) = 5
    /\ Confirmed(store, msg[t].author)
    /\ trace[t][3].args = <<store[msg[t].author]>>

\* C17: the reply wait of a subscribe invocation ends only with the one
\* collected reply or with the timeout, and it does end; every invocation
\* that has started ends, given that every awaited call returns or fails.
\* (An invocation leaves its running states only into an end state, and it
\* is outside its running states again and again: so each run of it ends.)
Ended(t) == pc[t] \in {"done", "unhandled"}

C17_WaitEndsAndInvocationsTerminate ==
  /\ [][ /\ \A t \in Invocations :
              (pc[t] = "s_await" /\ pc'[t] # "s_await") =>
                LET e == trace'[t][Len(trace'[t])] IN
                /\ trace'[t] = Append(trace[t], e)
                /\ e.op = "awaitMessages"
                /\ \/ e.ok /\ e.args \in {<<r>> : r \in Replies} /\ pc'[t] = "s_subscribe"
                   \/ ~e.ok /\ e.args = <<>> /\ pc'[t] = "s_catch"
         /\ \A t \in Invocations :
              (pc[t] # "idle" /\ ~Ended(t) /\ pc'[t] # pc[t]) => pc'[t] # "idle"
     ]_vars
  /\ \A t \in Invocations : []<>(pc[t] = "idle" \/ Ended(t))

\* one subscribe invocation has ended after a collected reply, the other
\* after the timeout
C17_Witness ==
  \E t, o \in Invocations :
    /\ Ended(t) /\ Ended(o)
    /\ Len(trace[t]) >= 3 /\ trace[t][3].op = "awaitMessages" /\ trace[t][3].ok
    /\ Len(trace[o]) >= 3 /\ trace[o][3] = Ev("awaitMessages", FALSE, "", <<>>)

\* s begins with p, character by character
HasPrefix(s, p) == Len(s) >= Len(p) /\ \A i \in 1..Len(p) : s[i] = p[i]

\* the calls of each flow
InspireCall(e) ==
  \/ e.op \in {"getQuote", "channel.send", "get", "publish"}
  \/ e.op = "author.send" /\ e.text \in {MsgSmsAck, MsgInspireErr}
SubscribeFlowCall(e) ==
  \/ e.op \in {"createDM", "awaitMessages", "subscribe", "put"}
  \/ e.op = "dm.send" /\ e.text \in {MsgPrompt, MsgPendingAck}
  \/ e.op = "author.send" /\ e.text = MsgSubscribeErr
UnsubscribeCall(e) ==
  \/ e.op \in {"get", "delete"}
  \/ e.op = "author.send" /\ e.text \in {MsgUnsubAck, MsgNotSubscribed, MsgUnsubErr}

\* C18: a message of a bot, or one whose text begins with none of the three
\* commands, makes the handler call nothing; a message beginning with a
\* command makes it run the calls of that command's flow only, so
\* "!unsubscribe" never starts the subscribe flow.
C18_OneFlowPerMessage ==
  \A t \in Invocations :
    pc[t] # "idle" =>
      LET c == msg[t].content
          all(F(_)) == \A i \in Idx(t) : F(trace[t][i])
      IN
      /\ ( \/ msg[t].bot
           \/ ~(HasPrefix(c, CmdInspire) \/ HasPrefix(c, CmdSubscribe) \/ HasPrefix(c, CmdUnsubscribe)) )
         => (trace[t] = <<>> /\ pc[t] = "done")
      /\ (~msg[t].bot /\ HasPrefix(c, CmdInspire)) => all(InspireCall)
      /\ (~msg[t].bot /\ HasPrefix(c, CmdSubscribe)) => all(SubscribeFlowCall)
      /\ (~msg[t].bot /\ HasPrefix(c, CmdUnsubscribe)) => all(UnsubscribeCall)

\* a bot's "!subscribe" was ignored, and a user's "!unsubscribe" has run the
\* unsubscribe flow to its end
C18_Witness ==
  \E t, o \in Invocations :
    /\ pc[t] = "done" /\ msg[t].bot /\ msg[t].content = CmdSubscribe
    /\ trace[t] = <<>>
    /\ pc[o] = "done" /\ ~msg[o].bot /\ msg[o].content = CmdUnsubscribe
    /\ Len(trace[o]) = 3
    /\ trace[o][2].op = "delete"

\* how often an invocation has made a call
Count(t, op) == Cardinality({i \in Idx(t) : trace[t][i].op = op})

\* C19: nothing is retried: an invocation calls each of the quote fetch, SMS
\* publish, SNS subscribe, store get, store put and store delete at most
\* once, and sends the subscribe prompt at most once, also after a failure.
C19_NoRetry ==
  \A t \in Invocations :
    /\ \A op \in {"getQuote", "publish", "subscribe", "get", "put", "delete",
                  "createDM", "awaitMessages", "channel.send"} : Count(t, op) <= 1
    /\ Cardinality({i \in Idx(t) : trace[t][i].text = MsgPrompt}) <= 1
    /\ \A i \in Idx(t) : ~trace[t][i].ok =>
         \A j \in Idx(t) : (j > i) => trace[t][j].op = "author.send"

\* a subscribe call and a store delete have failed and the invocations have
\* ended without a second try
C19_Witness ==
  \E t, o \in Invocations :
    /\ pc[t] = "done" /\ pc[o] = "done"
    /\ Count(t, "subscribe") = 1 /\ C7_SubscribeFailed(t)
    /\ Count(o, "delete") = 1
    /\ \E i \in Idx(o) : trace[o][i].op = "delete" /\ ~trace[o][i].ok

\* C20: in the subscribe flow the pending-confirmation acknowledgment is
\* sent directly after the successful SNS subscribe call and the put is
\* called directly after the successful acknowledgment, so a record is put
\* only where both succeeded; when the acknowledgment or the put fails, the
\* number has been subscribed to the topic, the invocation has stored
\* nothing and it goes on to report the error.
C20_Registered(t) ==
  \E i \in Idx(t) : trace[t][i].op = "subscribe" /\ trace[t][i].ok

C20_AckOrPutFailed(t) ==
  \E i \in Idx(t) :
    /\ ~trace[t][i].ok
    /\ trace[t][i].op = "put" \/ trace[t][i].text = MsgPendingAck

C20_AckBetweenSubscribeAndPut ==
  /\ [](\A t \in Invocations :
          /\ \A i \in Idx(t) :
               /\ trace[t][i].text = MsgPendingAck =>
                    /\ i > 1
                    /\ trace[t][i - 1].op = "subscribe" /\ trace[t][i - 1].ok
               /\ trace[t][i].op = "put" =>
                    /\ i > 2
                    /\ trace[t][i - 1] = Ev("dm.send", TRUE, MsgPendingAck, <<>>)
                    /\ trace[t][i - 2].op = "subscribe" /\ trace[t][i - 2].ok
          /\ C20_AckOrPutFailed(t) =>
               /\ C20_Registered(t)
               /\ \A i \in Idx(t) : trace[t][i].op = "put" => ~trace[t][i].ok
               /\ pc[t] \in {"s_catch", "done", "unhandled"})
  /\ [][ \A t \in Invocations :
           ( /\ Steps(t)
             /\ \/ C20_AckOrPutFailed(t)
                \/ pc[t] = "s_ack"
                \/ pc[t] = "s_save" /\ pc'[t] = "s_catch" )
           => store' = store ]_vars

\* the number is subscribed to the topic, the acknowledgment failed, and the
\* user still has no record
C20_Witness ==
  \E t \in Invocations :
    /\ pc[t] = "done"
    /\ C20_Registered(t)
    /\ Len(trace[t]) = 6
    /\ trace[t][5] = Ev("dm.send", FALSE, MsgPendingAck, <<>>)
    /\ Unset(store, msg[t].author)
    /\ \A o \in Invocations \ {t} : pc[o] = "idle"

====
